---- MODULE Spec2Model ----
(***************************************************************************)
(* Order admission pipeline of the POS backend (src/main.py).              *)
(*                                                                         *)
(* The server is one process running one asyncio event loop                *)
(* (uvicorn.run at the end of main.py).  Every handler is an `async def`   *)
(* that calls the blocking pymongo driver, so the code of a handler        *)
(* between two `await`s runs without interleaving: it is one action here.  *)
(* Handlers interleave at their `await`s (bus publish, notification).      *)
(*                                                                         *)
(* Amounts of money and percentages are Python floats in the source; here  *)
(* they are integers counting hundredths (5000 is 50.00).  Binary floating *)
(* point representation error is not modelled.                             *)
(* Instants are integer ticks; a second has SubsecPerSec ticks (the        *)
(* sub-second part of a datetime) and a day has TicksPerDay ticks.         *)
(***************************************************************************)
EXTENDS Integers, Sequences, FiniteSets, TLC

\* ---------------------------------------------------------------- bounds
MaxReq == 2          \* admissions per behaviour
MaxPromos == 1       \* promo codes created per behaviour
MaxTime == 5         \* last instant of the clock
SecsPerDay == 2      \* whole seconds of a day
SubsecPerSec == 2    \* distinct sub-second values of a datetime
MaxUpd == 2          \* status and payment updates per behaviour
MaxConns == 2        \* /ws connections per behaviour
MaxFrames == 2       \* client frames, and idle timeouts, per connection
MaxItems == 2        \* line items of a cart
MaxMods == 1         \* selected modifiers of a line item

TicksPerDay == SecsPerDay * SubsecPerSec

Reqs == 1..MaxReq
Times == 0..MaxTime
Upds == 1..MaxUpd
Conns == 1..MaxConns

\* ------------------------------------------------------- optional values
\* Python None / a present value
None == <<>>
Some(x) == <<x>>

\* Python truthiness of an Optional number: None and 0 are falsy
TruthyNum(opt) == opt # None /\ opt[1] # 0
\* Python truthiness of an Optional datetime: only None is falsy
TruthyDate(opt) == opt # None
\* Python truthiness of an Optional str: None and "" are falsy
TruthyStr(opt) == opt # None /\ opt[1] # ""

Min(a, b) == IF a <= b THEN a ELSE b

\* --------------------------------------------------------------- datetime
DayOf(t) == t \div TicksPerDay
SubsecOf(t) == t % SubsecPerSec
\* datetime.replace(hour=0, minute=0, second=0): the date and the sub-second
\* part are kept
ReplaceHMS0(t) == DayOf(t) * TicksPerDay + SubsecOf(t)
\* strftime("%Y%m%d"): one value per calendar day
StrftimeYmd(t) == DayOf(t)

\* ----------------------------------------------------------------- str
\* str.upper() over the codes the model uses
Upper(s) ==
    CASE s = "sale" -> "SALE"
      [] s = "Sale" -> "SALE"
      [] OTHER -> s

RECURSIVE Digits(_)
\* decimal digits of n >= 0, most significant first
Digits(n) == IF n < 10 THEN <<n>> ELSE Append(Digits(n \div 10), n % 10)

RECURSIVE ZeroPad(_, _)
ZeroPad(ds, width) == IF Len(ds) >= width THEN ds ELSE ZeroPad(<<0>> \o ds, width)

\* format spec 03d
Format03d(n) == ZeroPad(Digits(n), 3)

\* A message is a sequence of tokens <<kind, number>>; the token
\* <<"{amount}", 0>> is the placeholder text, <<"str", n>> is str(n).
AmountToken == <<"{amount}", 0>>
StrOf(n) == <<"str", n>>
\* str.replace("{amount}", str(n)): every occurrence
ReplaceAmount(msg, n) ==
    [i \in 1..Len(msg) |-> IF msg[i] = AmountToken THEN StrOf(n) ELSE msg[i]]

\* A text is a literal or the JSON encoding of a message.
Text(s) == [text |-> s]
\* json.dumps(message, default=str): the text whose parse is message
JsonDumps(message) == [json |-> message]
IsJson(text) == "json" \in DOMAIN text
\* what a client gets by parsing a JSON text
JsonLoads(text) == text.json

\* round(x, 2) of the exact quotient n / d, in hundredths: nearest, ties to even
RoundDiv(n, d) ==
    LET q == n \div d
        r == n % d
    IN  IF 2 * r < d THEN q
        ELSE IF 2 * r > d THEN q + 1
        ELSE IF q % 2 = 0 THEN q ELSE q + 1

\* ------------------------------------------------------------------ state
VARIABLES
    now,               \* the latest reading of the wall clock, datetime.utcnow()
    connected,         \* database.connected
    telegram,          \* TELEGRAM_BOT_TOKEN and TELEGRAM_CHAT_ID are both set
    orders,            \* database.orders, in insertion order
    promo_codes,       \* database.promo_codes
    DEMO_ORDERS,       \* in-memory fallback list, newest first
    demo_order_counter,
    DEMO_PROMO_CODES,
    delivery,          \* runtime_settings["delivery"]
    settings,          \* the delivery field of database.settings' app_settings
    bus,               \* messages published on CHANNEL_ORDERS_NEW
    req,               \* each admission request: position and result
    effects,           \* what each admission request has done so far
    upd,               \* each status or payment update request: position and result
    ws                 \* each /ws connection: its endpoint coroutine and forward task

vars == <<now, connected, telegram, orders, promo_codes, DEMO_ORDERS,
          demo_order_counter, DEMO_PROMO_CODES, delivery, settings, bus, req,
          effects, upd, ws>>

DefaultMessage == <<<<"min", 0>>, AmountToken>>

DefaultDelivery ==
    [min_order_amount |-> 0, min_order_amount_out_of_city |-> 0,
     min_order_message |-> DefaultMessage, enabled |-> FALSE]

IdleReq ==
    [pc |-> "idle", data |-> None, http |-> 0, detail |-> <<>>, order |-> None,
     promo_error |-> "", raised |-> ""]

NoEffects == [orders |-> 0, incs |-> 0, pubs |-> 0, notifs |-> 0, failed |-> 0]

\* an update request that has not arrived yet
IdleUpd ==
    [pc |-> "idle", kind |-> "", order_id |-> 0, value |-> "", http |-> 0,
     matched |-> FALSE, raised |-> "", pubs |-> 0]

\* a /ws connection no client has opened yet
ClosedConn ==
    [pc |-> "closed", client |-> "none", pubsub |-> None, listener |-> "none",
     data |-> "", silence |-> 0, received |-> 0, timeouts |-> 0, sent |-> <<>>]

Init ==
    /\ now = 0
    /\ connected \in BOOLEAN
    /\ telegram \in BOOLEAN
    /\ orders = <<>>
    /\ promo_codes = <<>>
    /\ DEMO_ORDERS = <<>>
    /\ demo_order_counter = 0
    /\ DEMO_PROMO_CODES = <<>>
    /\ delivery = DefaultDelivery
    /\ settings = None
    /\ bus = <<>>
    /\ req = [r \in Reqs |-> IdleReq]
    /\ effects = [r \in Reqs |-> NoEffects]
    /\ upd = [u \in Upds |-> IdleUpd]
    /\ ws = [c \in Conns |-> ClosedConn]

\* ------------------------------------------------------- pricing, promos
RECURSIVE SumItems(_)
\* sum(item.price * item.qty for item in data.items)
SumItems(items) ==
    IF items = <<>> THEN 0
    ELSE Head(items).price * Head(items).qty + SumItems(Tail(items))

\* indexes of the documents of a collection whose code field is c
WithCode(coll, c) == {i \in 1..Len(coll) : coll[i].code = c}

FirstOf(S) == CHOOSE i \in S : \A j \in S : i <= j

Invalid(err) == [valid |-> FALSE, error |-> err, promo |-> None]
Valid(promo) == [valid |-> TRUE, error |-> "", promo |-> Some(promo)]

\* validate_promo_code in demo mode: the first active entry of
\* DEMO_PROMO_CODES with that code, compared in upper case
ValidateDemo(code, demo) ==
    LET hits == {i \in 1..Len(demo) :
                    Upper(demo[i].code) = Upper(code) /\ demo[i].is_active}
    IN  IF hits = {} THEN Invalid("not_found") ELSE Valid(demo[FirstOf(hits)])

\* validate_promo_code against the document store; t is its utcnow()
ValidateStore(code, order_total, coll, t) ==
    LET hits == WithCode(coll, Upper(code))
        promo == coll[FirstOf(hits)]
    IN  IF hits = {} THEN Invalid("not_found")
        ELSE IF ~promo.is_active THEN Invalid("inactive")
        ELSE IF TruthyDate(promo.valid_from) /\ t < promo.valid_from[1]
            THEN Invalid("not_yet_valid")
        ELSE IF TruthyDate(promo.valid_to) /\ t > promo.valid_to[1]
            THEN Invalid("expired")
        ELSE IF TruthyNum(promo.usage_limit)
                /\ promo.usage_count >= promo.usage_limit[1]
            THEN Invalid("usage_exceeded")
        ELSE IF order_total < promo.min_order_amount THEN Invalid("min_not_met")
        ELSE Valid(promo)

validate_promo_code(code, order_total, isConnected, coll, demo, t) ==
    IF ~isConnected THEN ValidateDemo(code, demo)
    ELSE ValidateStore(code, order_total, coll, t)

\* calculate_discount: discount_value is a percentage or an amount
calculate_discount(promo, order_total) ==
    IF promo.discount_type = "percentage"
    THEN RoundDiv(order_total * promo.discount_value, 10000)
    ELSE Min(promo.discount_value, order_total)

\* C5 mutant: the zone is not looked at
MinAmount_ignoring_zone(data, delivery_settings) ==
    delivery_settings.min_order_amount

\* the threshold create_order compares the subtotal with
MinAmount(data, delivery_settings) ==
    IF data.delivery_zone = Some("out_of_city")
    THEN delivery_settings.min_order_amount_out_of_city
    ELSE delivery_settings.min_order_amount

\* the delivery-minimum check of create_order raises HTTPException(400)
DeliveryRejects(data, subtotal, delivery_settings) ==
    /\ data.order_type = "delivery"
    /\ delivery_settings.enabled
    /\ MinAmount(data, delivery_settings) > 0
    /\ subtotal < MinAmount(data, delivery_settings)

DeliveryDetail(data, delivery_settings) ==
    ReplaceAmount(delivery_settings.min_order_message, MinAmount(data, delivery_settings))

\* count_documents({"created_at": {"$gte": utcnow().replace(hour=0, ...)}})
CountToday(coll, t) ==
    Cardinality({i \in 1..Len(coll) : coll[i].created_at >= ReplaceHMS0(t)})

\* generate_order_number: tToday and tCount are its two utcnow() readings,
\* count is the store's count or the incremented demo counter
OrderNumber(tToday, count) ==
    [prefix |-> "ORD", today |-> StrftimeYmd(tToday), ordinal |-> Format03d(count)]

generate_order_number(isConnected, coll, counter, tToday, tCount) ==
    IF isConnected THEN OrderNumber(tToday, CountToday(coll, tCount))
    ELSE OrderNumber(tToday, counter + 1)

\* ---------------------------------------------------------------- actions
\* POST /api/promo-codes; a duplicate code is refused by the store branch
\* (HTTP 400, nothing written)
PromoDoc(data, id) ==
    [_id |-> id, code |-> Upper(data.code), discount_type |-> data.discount_type,
     discount_value |-> data.discount_value, valid_from |-> data.valid_from,
     valid_to |-> data.valid_to, usage_limit |-> data.usage_limit,
     min_order_amount |-> data.min_order_amount, is_active |-> data.is_active,
     usage_count |-> 0]

create_promo_code(data) ==
    /\ Len(promo_codes) + Len(DEMO_PROMO_CODES) < MaxPromos
    /\ IF ~connected
       THEN /\ DEMO_PROMO_CODES' =
                 Append(DEMO_PROMO_CODES, PromoDoc(data, Len(DEMO_PROMO_CODES) + 1))
            /\ UNCHANGED promo_codes
       ELSE /\ WithCode(promo_codes, Upper(data.code)) = {}
            /\ promo_codes' = Append(promo_codes, PromoDoc(data, Len(promo_codes) + 1))
            /\ UNCHANGED DEMO_PROMO_CODES
    /\ UNCHANGED <<now, connected, telegram, orders, DEMO_ORDERS,
                   demo_order_counter, delivery, settings, bus, req, effects,
                   upd, ws>>

\* POST /api/settings/delivery
save_delivery_settings(min_order_amount, min_order_amount_out_of_city, min_order_message, enabled) ==
    LET saved == [min_order_amount |-> min_order_amount,
                  min_order_amount_out_of_city |-> min_order_amount_out_of_city,
                  min_order_message |-> min_order_message,
                  enabled |-> enabled]
    IN  /\ delivery' = saved
        /\ settings' = IF connected THEN Some(saved) ELSE settings
        /\ UNCHANGED <<now, connected, telegram, orders, promo_codes, DEMO_ORDERS,
                       demo_order_counter, DEMO_PROMO_CODES, bus, req, effects,
                       upd, ws>>

\* what a GET of the settings leaves in runtime_settings["delivery"]: the
\* stored document's delivery entry when the store is connected and has one
LoadDelivery(isConnected, db_settings, current) ==
    IF isConnected /\ db_settings # None THEN db_settings[1] ELSE current

\* GET /api/settings/delivery
get_delivery_settings ==
    /\ delivery' = LoadDelivery(connected, settings, delivery)
    /\ UNCHANGED <<now, connected, telegram, orders, promo_codes, DEMO_ORDERS,
                   demo_order_counter, DEMO_PROMO_CODES, settings, bus, req,
                   effects, upd, ws>>

\* GET /api/settings
get_settings ==
    /\ delivery' = LoadDelivery(connected, settings, delivery)
    /\ UNCHANGED <<now, connected, telegram, orders, promo_codes, DEMO_ORDERS,
                   demo_order_counter, DEMO_PROMO_CODES, settings, bus, req,
                   effects, upd, ws>>

\* runtime_settings["delivery"] when the module is loaded and lifespan has
\* run: the literal of the module, lifespan reads no settings
AtStartup(isConnected, db_settings) == DefaultDelivery

\* the process is stopped, with no handler in flight and no connection open,
\* and started again: the module-level state is initialised anew and
\* connect_db runs (isConnected is its outcome); the store and the bus keep
\* what they hold
restart(isConnected) ==
    /\ \A r \in Reqs : req[r].pc \notin {"publish", "notify"}
    /\ \A u \in Upds : upd[u].pc # "publish"
    /\ \A c \in Conns : ws[c].pc \in {"closed", "ended"}
    /\ connected' = isConnected
    /\ delivery' = AtStartup(isConnected, settings)
    /\ DEMO_ORDERS' = <<>>
    /\ demo_order_counter' = 0
    /\ DEMO_PROMO_CODES' = <<>>
    /\ UNCHANGED <<now, telegram, orders, promo_codes, settings, bus, req, effects,
                   upd, ws>>

\* the store calls of create_order, in the order it makes them
StoreCalls == {"find_one", "update_one", "count_documents", "insert_one"}

\* update_one({"code": code}, {"$inc": {"usage_count": 1}})
IncUsage(coll, code) ==
    IF WithCode(coll, code) = {} THEN coll
    ELSE [coll EXCEPT ![FirstOf(WithCode(coll, code))].usage_count = @ + 1]

OrderDoc(id, number, data, subtotal, discount_amount, promo_code_used, created) ==
    [_id |-> id, order_number |-> number, items |-> data.items,
     subtotal |-> subtotal, discount_amount |-> discount_amount,
     promo_code |-> promo_code_used, total |-> subtotal - discount_amount,
     status |-> "new", payment_status |-> "pending",
     order_type |-> data.order_type, delivery_zone |-> data.delivery_zone,
     created_at |-> created]

\* the discount create_order gives: 0 unless the code validated
DiscountAmount(res, subtotal) ==
    IF res.valid THEN calculate_discount(res.promo[1], subtotal) ELSE 0

\* C7 mutant: the order records the submitted code, validated or not
PromoCodeUsed_as_submitted(res, data) ==
    IF TruthyStr(data.promo_code) THEN Some(Upper(data.promo_code[1])) ELSE None

\* promo_code_used: None unless the code validated
PromoCodeUsed(res, data) ==
    IF res.valid THEN Some(res.promo[1].code) ELSE None

\* C6 mutant: the promo block runs before the delivery check
UsageIncremented_before_check(isRejected, isConnected, res, fail) ==
    isConnected /\ res.valid /\ fail # "update_one"

\* whether create_order reaches and completes the usage-count update_one: the
\* delivery check raises before the promo block, the block runs for a valid
\* code only and writes in store mode only
UsageIncremented(isRejected, isConnected, res, fail) ==
    ~isRejected /\ isConnected /\ res.valid /\ fail # "update_one"

\* the response to a ServerSelectionTimeoutError that leaves a handler
mongodb_timeout_handler_500 == [status_code |-> 500]

mongodb_timeout_handler == [status_code |-> 503]

\* the store calls create_order makes on its path
Executed(isConnected, usePromo, res) ==
    IF ~isConnected THEN {}
    ELSE (IF usePromo THEN {"find_one"} ELSE {})
         \cup (IF res.valid THEN {"update_one"} ELSE {})
         \cup {"count_documents", "insert_one"}

\* POST /api/orders, from its entry to its first await.  fail names the store
\* call that raises ("" when none does); tValidate, tToday, tCount and tCreated
\* are the successive utcnow() readings.
create_order(r, data, fail, tValidate, tToday, tCount, tCreated) ==
    LET subtotal == SumItems(data.items)
        rejected == DeliveryRejects(data, subtotal, delivery)
        usePromo == TruthyStr(data.promo_code)
        res == IF usePromo /\ ~(connected /\ fail = "find_one")
               THEN validate_promo_code(data.promo_code[1], subtotal, connected,
                                        promo_codes, DEMO_PROMO_CODES, tValidate)
               ELSE Invalid("")
        discount_amount == DiscountAmount(res, subtotal)
        promo_code_used == PromoCodeUsed(res, data)
        incremented == UsageIncremented(rejected, connected, res, fail)
        number == generate_order_number(connected, orders, demo_order_counter,
                                        tToday, tCount)
        doc == OrderDoc(IF connected THEN Len(orders) + 1 ELSE Len(DEMO_ORDERS) + 1,
                        number, data, subtotal, discount_amount, promo_code_used,
                        tCreated)
    IN  /\ req[r].pc = "idle"
        /\ now <= tValidate /\ tValidate <= tToday
        /\ tToday <= tCount /\ tCount <= tCreated
        /\ promo_codes' = IF incremented
                          THEN IncUsage(promo_codes, res.promo[1].code)
                          ELSE promo_codes
        /\ effects' = [effects EXCEPT
                         ![r].incs = @ + (IF incremented THEN 1 ELSE 0),
                         ![r].orders = @ + (IF rejected \/ fail # "" THEN 0 ELSE 1)]
        /\ IF rejected
           THEN /\ fail = "" /\ tCreated = now
                /\ req' = [req EXCEPT ![r] =
                             [@ EXCEPT !.pc = "rejected", !.data = Some(data),
                                       !.http = 400,
                                       !.detail = DeliveryDetail(data, delivery)]]
                /\ UNCHANGED <<now, orders, DEMO_ORDERS, demo_order_counter>>
           ELSE /\ fail = "" \/ fail \in Executed(connected, usePromo, res)
                /\ now' = tCreated
                /\ IF fail # ""
                   THEN /\ req' = [req EXCEPT ![r] =
                                     [@ EXCEPT !.pc = "error", !.data = Some(data),
                                               !.http = mongodb_timeout_handler.status_code,
                                               !.raised = fail,
                                               !.promo_error = res.error]]
                        /\ UNCHANGED <<orders, DEMO_ORDERS, demo_order_counter>>
                   ELSE /\ req' = [req EXCEPT ![r] =
                                     [@ EXCEPT !.pc = "publish", !.data = Some(data),
                                               !.order = Some(doc),
                                               !.promo_error = res.error]]
                        /\ IF connected
                           THEN /\ orders' = Append(orders, doc)
                                /\ UNCHANGED <<DEMO_ORDERS, demo_order_counter>>
                           ELSE /\ DEMO_ORDERS' = <<doc>> \o DEMO_ORDERS
                                /\ demo_order_counter' = demo_order_counter + 1
                                /\ UNCHANGED orders
        /\ UNCHANGED <<connected, telegram, DEMO_PROMO_CODES, delivery, settings, bus,
                       upd, ws>>

\* where create_order goes after the publish: "except Exception: pass"
\* swallows a failed publish
AfterPublish_propagating(delivered) == IF delivered THEN "notify" ELSE "error"

AfterPublish(delivered) == "notify"

\* create_order resumes: await redis_manager.publish(...), any exception
\* swallowed
create_order_publish(r, delivered) ==
    /\ req[r].pc = "publish"
    /\ bus' = IF delivered
              THEN Append(bus, JsonDumps([type |-> "new_order", order |-> req[r].order[1]]))
              ELSE bus
    /\ effects' = [effects EXCEPT ![r] = [@ EXCEPT !.pubs = @ + 1,
                                                   !.failed = @ + (IF delivered THEN 0 ELSE 1)]]
    /\ req' = [req EXCEPT ![r] = [@ EXCEPT !.pc = AfterPublish(delivered),
                                           !.http = IF AfterPublish(delivered) = "error"
                                                    THEN 500 ELSE @]]
    /\ UNCHANGED <<now, connected, telegram, orders, promo_codes, DEMO_ORDERS,
                   demo_order_counter, DEMO_PROMO_CODES, delivery, settings,
                   upd, ws>>

\* create_order resumes: the notification, when the bot is configured, and
\* the return of order_doc; send_telegram_message returns False when the
\* post fails, and an exception of send_order_notification is printed
create_order_notify(r, sent) ==
    /\ req[r].pc = "notify"
    /\ sent => telegram
    /\ effects' = [effects EXCEPT ![r] = [@ EXCEPT !.notifs = @ + (IF telegram THEN 1 ELSE 0),
                                                   !.failed = @ + (IF telegram /\ ~sent THEN 1 ELSE 0)]]
    /\ req' = [req EXCEPT ![r] = [@ EXCEPT !.pc = "done", !.http = 200]]
    /\ UNCHANGED <<now, connected, telegram, orders, promo_codes, DEMO_ORDERS,
                   demo_order_counter, DEMO_PROMO_CODES, delivery, settings, bus,
                   upd, ws>>

\* ---------------------------------------------------- status, payment
\* an order_id that is not the text of an ObjectId: ObjectId(order_id) raises
BadId == 0

\* C11 mutant: one more value is let through
valid_statuses_with_archived == {"new", "preparing", "ready", "completed", "cancelled", "archived"}

\* the list update_order_status checks its target against
valid_statuses == {"new", "preparing", "ready", "completed", "cancelled"}

\* the list update_payment_status checks its target against
valid_payment_statuses == {"pending", "paid"}

\* indexes of the orders of a list whose _id is order_id
WithId(list, order_id) == {i \in 1..Len(list) : list[i]._id = order_id}

\* {"$set": {"status": status}} on the first order with that _id, or the
\* for loop over DEMO_ORDERS that stops at the first match
SetStatus(list, order_id, status) ==
    IF WithId(list, order_id) = {} THEN list
    ELSE [list EXCEPT ![FirstOf(WithId(list, order_id))].status = status]

\* C28 mutant: a payment update also completes the order
SetPaymentStatus_completing(list, order_id, payment_status) ==
    IF WithId(list, order_id) = {} THEN list
    ELSE [list EXCEPT ![FirstOf(WithId(list, order_id))] =
            [@ EXCEPT !.payment_status = payment_status, !.status = "completed"]]

\* {"$set": {"payment_status": payment_status}}, or the for loop likewise
SetPaymentStatus(list, order_id, payment_status) ==
    IF WithId(list, order_id) = {} THEN list
    ELSE [list EXCEPT ![FirstOf(WithId(list, order_id))].payment_status = payment_status]

\* how an update request ends before its store write: the HTTP status it is
\* refused with, or 0 when the write is made.  ObjectId(order_id) raises
\* InvalidId, which no handler catches (500); update_one raising is the
\* store outage (503); matched_count == 0 is the 404.
UpdateRefusal(isConnected, list, order_id, fail) ==
    IF ~isConnected THEN 0
    ELSE IF order_id = BadId THEN 500
    ELSE IF fail = "update_one" THEN 503
    ELSE IF WithId(list, order_id) = {} THEN 404
    ELSE 0

\* the request record after the synchronous part of an update handler: what
\* was asked (kind, value), whether order_id matched a stored order, and the
\* outcome; order_id is kept while the handler still needs it
UpdResult(kind, order_id, value, refusal, isMatched, next) ==
    [pc |-> IF refusal = 0 THEN next
            ELSE IF refusal \in {400, 404} THEN "rejected" ELSE "error",
     kind |-> kind,
     order_id |-> IF refusal = 0 /\ next # "done" THEN order_id ELSE 0,
     value |-> value,
     http |-> IF refusal = 0 /\ next = "done" THEN 200 ELSE refusal,
     matched |-> isMatched,
     raised |-> IF refusal = 500 THEN "InvalidId"
                ELSE IF refusal = 503 THEN "update_one" ELSE "",
     pubs |-> 0]

\* PUT /api/orders/{order_id}/status, from its entry to its await
update_order_status(u, order_id, status, fail) ==
    LET list == IF connected THEN orders ELSE DEMO_ORDERS
        refusal == IF status \notin valid_statuses THEN 400
                   ELSE UpdateRefusal(connected, list, order_id, fail)
        isMatched == WithId(list, order_id) # {}
    IN  /\ upd[u].pc = "idle"
        /\ fail = "update_one" => refusal = 503
        /\ upd' = [upd EXCEPT ![u] =
                     UpdResult("status", order_id, status, refusal, isMatched, "publish")]
        /\ orders' = IF connected /\ refusal = 0
                     THEN SetStatus(orders, order_id, status) ELSE orders
        /\ DEMO_ORDERS' = IF ~connected /\ refusal = 0
                          THEN SetStatus(DEMO_ORDERS, order_id, status)
                          ELSE DEMO_ORDERS
        /\ UNCHANGED <<now, connected, telegram, promo_codes, demo_order_counter,
                       DEMO_PROMO_CODES, delivery, settings, bus, req, effects, ws>>

\* update_order_status resumes: await redis_manager.publish(...), any
\* exception swallowed, and the return
update_order_status_publish(u, delivered) ==
    /\ upd[u].pc = "publish"
    /\ bus' = IF delivered
              THEN Append(bus, JsonDumps([type |-> "order_updated",
                                          order_id |-> upd[u].order_id,
                                          status |-> upd[u].value]))
              ELSE bus
    /\ upd' = [upd EXCEPT ![u] = [@ EXCEPT !.pc = "done", !.http = 200, !.pubs = @ + 1,
                                           !.order_id = 0]]
    /\ UNCHANGED <<now, connected, telegram, orders, promo_codes, DEMO_ORDERS,
                   demo_order_counter, DEMO_PROMO_CODES, delivery, settings, req,
                   effects, ws>>

\* PUT /api/orders/{order_id}/payment: it has no await
update_payment_status(u, order_id, payment_status, fail) ==
    LET list == IF connected THEN orders ELSE DEMO_ORDERS
        refusal == IF payment_status \notin valid_payment_statuses THEN 400
                   ELSE UpdateRefusal(connected, list, order_id, fail)
        isMatched == WithId(list, order_id) # {}
    IN  /\ upd[u].pc = "idle"
        /\ fail = "update_one" => refusal = 503
        /\ upd' = [upd EXCEPT ![u] =
                     UpdResult("payment", order_id, payment_status, refusal, isMatched, "done")]
        /\ orders' = IF connected /\ refusal = 0
                     THEN SetPaymentStatus(orders, order_id, payment_status)
                     ELSE orders
        /\ DEMO_ORDERS' = IF ~connected /\ refusal = 0
                          THEN SetPaymentStatus(DEMO_ORDERS, order_id, payment_status)
                          ELSE DEMO_ORDERS
        /\ UNCHANGED <<now, connected, telegram, promo_codes, demo_order_counter,
                       DEMO_PROMO_CODES, delivery, settings, bus, req, effects, ws>>

\* -------------------------------------------------------------------- /ws
\* wait_for(websocket.receive_text(), timeout=30)
KeepaliveTimeout == 30

\* REDIS_CHANNELS: pubsub.subscribe is confirmed once per channel, and
\* listen() yields the confirmations before any published message
REDIS_CHANNELS == <<"pos:orders:new", "pos:stats:update">>

\* redis_manager.subscribe(REDIS_CHANNELS) at this moment: the subscription
\* sees what is published from now on
Subscribe(channel) ==
    [acks |-> Len(REDIS_CHANNELS), since |-> Len(channel), pos |-> Len(channel)]

\* what ps.listen() yields next, if anything
HasMessage(ps, channel) == ps.acks > 0 \/ ps.pos < Len(channel)

NextMessage(ps, channel) ==
    IF ps.acks > 0 THEN [type |-> "subscribe", data |-> ps.acks]
    ELSE [type |-> "message", data |-> channel[ps.pos + 1]]

Consumed(ps) ==
    IF ps.acks > 0 THEN [ps EXCEPT !.acks = @ - 1] ELSE [ps EXCEPT !.pos = @ + 1]

\* C16 mutant: the forward task looks for pattern-subscription messages
Forwards_pmessage(message) == message.type = "pmessage"

\* if message["type"] == "message"
Forwards(message) == message.type = "message"

\* C19 mutant: the failure of the subscription is not caught
AfterSubscribe_uncaught(subscribed) == IF subscribed THEN "wait" ELSE "ended"

\* where the endpoint goes after the inner try around the subscription: the
\* liveness loop, whether redis_manager.subscribe returned or raised
AfterSubscribe(subscribed) == "wait"

\* GET /ws: websocket.accept(), the subscription and the start of the forward
\* task, up to the first wait_for; subscribed is whether redis_manager.subscribe
\* returned (it raises when the bus cannot be reached)
websocket_endpoint(c, subscribed) ==
    /\ ws[c].pc = "closed"
    /\ ws' = [ws EXCEPT ![c] =
                [@ EXCEPT !.pc = AfterSubscribe(subscribed), !.client = "open",
                          !.pubsub = IF subscribed THEN Some(Subscribe(bus)) ELSE None,
                          !.listener = IF subscribed THEN "running" ELSE "none",
                          !.silence = 0]]
    /\ UNCHANGED <<now, connected, telegram, orders, promo_codes, DEMO_ORDERS,
                   demo_order_counter, DEMO_PROMO_CODES, delivery, settings, bus,
                   req, effects, upd>>

\* C26 mutant: an exception of the forward task ends the liveness loop too
OnForwardFailure_ends_loop(pc) == "closing"

\* where the liveness loop is after an exception of the forward task: the
\* task was started with create_task and nothing awaits it
OnForwardFailure(pc) == pc

\* the forward task: one turn of `async for message in ps.listen()`.  A
\* send_text to a client that is gone raises and ends the task.
listener(c) ==
    /\ ws[c].listener = "running"
    /\ ws[c].pubsub # None
    /\ HasMessage(ws[c].pubsub[1], bus)
    /\ LET message == NextMessage(ws[c].pubsub[1], bus)
           forward == Forwards(message)
       IN  ws' = [ws EXCEPT ![c] =
                    [@ EXCEPT !.pubsub = Some(Consumed(@[1])),
                              !.sent = IF forward /\ ws[c].client = "open"
                                       THEN Append(@, message.data) ELSE @,
                              !.listener = IF forward /\ ws[c].client # "open"
                                           THEN "dead" ELSE @,
                              !.pc = IF forward /\ ws[c].client # "open"
                                     THEN OnForwardFailure(@) ELSE @]]
    /\ UNCHANGED <<now, connected, telegram, orders, promo_codes, DEMO_ORDERS,
                   demo_order_counter, DEMO_PROMO_CODES, delivery, settings, bus,
                   req, effects, upd>>

\* the forward task: ps.listen() raises because the bus connection is lost;
\* nothing awaits the task, it just ends
listener_raises(c) ==
    /\ ws[c].listener = "running"
    /\ ws' = [ws EXCEPT ![c] = [@ EXCEPT !.listener = "dead",
                                         !.pc = OnForwardFailure(@)]]
    /\ UNCHANGED <<now, connected, telegram, orders, promo_codes, DEMO_ORDERS,
                   demo_order_counter, DEMO_PROMO_CODES, delivery, settings, bus,
                   req, effects, upd>>

\* C18 mutant: the reply is the probe text
PongFrame_as_ping == Text("ping")

\* websocket.send_text("pong")
PongFrame == Text("pong")

\* websocket.send_text("ping")
ProbeFrame == Text("ping")

\* C17 mutant: the timer is set to half the time
TimedOut_early(silence) == 2 * silence >= KeepaliveTimeout

\* asyncio.TimeoutError: the wait has lasted the whole timeout
TimedOut(silence) == silence >= KeepaliveTimeout

\* the liveness loop: receive_text returns a client frame before the timeout
ws_receive(c, data) ==
    /\ ws[c].pc = "wait"
    /\ ws[c].client = "open"
    /\ ws[c].received < MaxFrames
    /\ ws' = [ws EXCEPT ![c] =
                [@ EXCEPT !.pc = IF data = "ping" THEN "pong" ELSE "wait",
                          !.data = data, !.silence = 0, !.received = @ + 1]]
    /\ UNCHANGED <<now, connected, telegram, orders, promo_codes, DEMO_ORDERS,
                   demo_order_counter, DEMO_PROMO_CODES, delivery, settings, bus,
                   req, effects, upd>>

\* the liveness loop: await websocket.send_text("pong"), then the next wait_for
ws_send_pong(c) ==
    /\ ws[c].pc = "pong"
    /\ ws[c].client = "open"
    /\ ws' = [ws EXCEPT ![c] = [@ EXCEPT !.pc = "wait", !.sent = Append(@, PongFrame)]]
    /\ UNCHANGED <<now, connected, telegram, orders, promo_codes, DEMO_ORDERS,
                   demo_order_counter, DEMO_PROMO_CODES, delivery, settings, bus,
                   req, effects, upd>>

\* d time-units pass while the liveness loop waits and no client frame arrives
ws_elapse(c, d) ==
    /\ ws[c].pc = "wait"
    /\ ws[c].client = "open"
    /\ ws[c].timeouts < MaxFrames
    /\ ~TimedOut(ws[c].silence)
    /\ ws[c].silence + d <= KeepaliveTimeout
    /\ ws' = [ws EXCEPT ![c].silence = @ + d]
    /\ UNCHANGED <<now, connected, telegram, orders, promo_codes, DEMO_ORDERS,
                   demo_order_counter, DEMO_PROMO_CODES, delivery, settings, bus,
                   req, effects, upd>>

\* the liveness loop: wait_for raises asyncio.TimeoutError
ws_timeout(c) ==
    /\ ws[c].pc = "wait"
    /\ ws[c].client = "open"
    /\ TimedOut(ws[c].silence)
    /\ ws' = [ws EXCEPT ![c] = [@ EXCEPT !.pc = "probe", !.timeouts = @ + 1]]
    /\ UNCHANGED <<now, connected, telegram, orders, promo_codes, DEMO_ORDERS,
                   demo_order_counter, DEMO_PROMO_CODES, delivery, settings, bus,
                   req, effects, upd>>

\* the liveness loop: await websocket.send_text("ping"), then the next wait_for
ws_send_probe(c) ==
    /\ ws[c].pc = "probe"
    /\ ws[c].client = "open"
    /\ ws' = [ws EXCEPT ![c] =
                [@ EXCEPT !.pc = "wait", !.silence = 0, !.sent = Append(@, ProbeFrame)]]
    /\ UNCHANGED <<now, connected, telegram, orders, promo_codes, DEMO_ORDERS,
                   demo_order_counter, DEMO_PROMO_CODES, delivery, settings, bus,
                   req, effects, upd>>

\* the client closes the connection, or the transport breaks
client_disconnects(c) ==
    /\ ws[c].pc \in {"wait", "pong", "probe"}
    /\ ws[c].client = "open"
    /\ ws' = [ws EXCEPT ![c].client = "gone"]
    /\ UNCHANGED <<now, connected, telegram, orders, promo_codes, DEMO_ORDERS,
                   demo_order_counter, DEMO_PROMO_CODES, delivery, settings, bus,
                   req, effects, upd>>

\* C20 mutant: the forward task is left running
Cancelled_left_running(task) == task

\* listener_task.cancel(): a running task gets CancelledError at its next
\* resumption, a finished one is not touched
Cancelled(task) == IF task = "running" THEN "cancelled" ELSE task

\* the liveness loop ends: receive_text or send_text raises on a connection
\* whose client is gone (WebSocketDisconnect breaks the loop, anything else
\* reaches the outer except); the finally block runs up to its await
ws_teardown(c) ==
    /\ ws[c].pc \in {"wait", "pong", "probe"}
    /\ ws[c].client = "gone"
    /\ ws' = [ws EXCEPT ![c] =
                [@ EXCEPT !.listener = Cancelled(@),
                          !.pc = IF ws[c].pubsub # None THEN "closing" ELSE "ended"]]
    /\ UNCHANGED <<now, connected, telegram, orders, promo_codes, DEMO_ORDERS,
                   demo_order_counter, DEMO_PROMO_CODES, delivery, settings, bus,
                   req, effects, upd>>

\* the finally block resumes: await pubsub.aclose() returns
ws_aclose(c) ==
    /\ ws[c].pc = "closing"
    /\ ws' = [ws EXCEPT ![c] = [@ EXCEPT !.pc = "ended", !.pubsub = None]]
    /\ UNCHANGED <<now, connected, telegram, orders, promo_codes, DEMO_ORDERS,
                   demo_order_counter, DEMO_PROMO_CODES, delivery, settings, bus,
                   req, effects, upd>>

\* ----------------------------------------------------------------- inputs
Item(price, qty) == [price |-> price, qty |-> qty, modifiers |-> <<>>]

\* requests are numbered in the order in which they arrive
NextReq == {r \in Reqs : req[r].pc = "idle" /\ \A q \in 1..(r - 1) : req[q].pc # "idle"}

Publish == \E r \in Reqs, delivered \in BOOLEAN : create_order_publish(r, delivered)

Notify == \E r \in Reqs, sent \in BOOLEAN : create_order_notify(r, sent)

\* ------------------------------------------- admissions and their numbers
\* Concurrent admissions of plain carts with the clock running.
PlainInputs ==
    [items : {<<Item(5000, 1)>>}, order_type : {"dine_in"},
     delivery_zone : {None}, promo_code : {None}]

Admit ==
    \E r \in NextReq, data \in PlainInputs, fail \in StoreCalls \cup {""} :
        \E tToday \in now..MaxTime :
            \E tCount \in tToday..MaxTime :
                \E tCreated \in tCount..MaxTime :
                    create_order(r, data, fail, tToday, tToday, tCount, tCreated)

Next == Admit \/ Publish \/ Notify

Spec == Init /\ [][Next]_vars

\* ------------------------------------------------- one admission, promos
\* One admission against a store that holds at most one promo code, over
\* every combination of the code's fields.
PromoAny ==
    [code : {"sale"}, discount_type : {"percentage", "fixed"},
     discount_value : {1000, 15000},
     valid_from : {None, Some(2)}, valid_to : {None, Some(3)},
     usage_limit : {None, Some(0), Some(1)},
     min_order_amount : {0, 7500}, is_active : BOOLEAN]

\* usage counts a stored code can have reached before the admission
UsedSoFar(data) == IF data.usage_limit = Some(0) THEN {0} ELSE {0, 1}

InitPromo ==
    /\ now = 0
    /\ connected \in BOOLEAN
    /\ telegram \in BOOLEAN
    /\ orders = <<>>
    /\ DEMO_ORDERS = <<>>
    /\ demo_order_counter = 0
    /\ \E data \in PromoAny, u \in {0, 1}, present \in BOOLEAN :
          LET stored == IF present /\ u \in UsedSoFar(data)
                        THEN <<[PromoDoc(data, 1) EXCEPT
                                  !.usage_count = IF connected THEN u ELSE 0]>>
                        ELSE <<>>
          IN  /\ promo_codes = IF connected THEN stored ELSE <<>>
              /\ DEMO_PROMO_CODES = IF connected THEN <<>> ELSE stored
    /\ delivery = DefaultDelivery
    /\ settings = None
    /\ bus = <<>>
    /\ req = [r \in Reqs |-> IdleReq]
    /\ effects = [r \in Reqs |-> NoEffects]
    /\ upd = [u \in Upds |-> IdleUpd]
    /\ ws = [c \in Conns |-> ClosedConn]

PromoOrderInputs ==
    [items : {<<Item(5000, 1)>>, <<Item(9999, 2)>>}, order_type : {"dine_in"},
     delivery_zone : {None}, promo_code : {None, Some(""), Some("sale")}]

AdmitPromo ==
    \E data \in PromoOrderInputs, fail \in StoreCalls \cup {""} :
        \E tValidate \in now..MaxTime :
            \E tCreated \in tValidate..MaxTime :
                create_order(1, data, fail, tValidate, tCreated, tCreated, tCreated)

NextPromo == AdmitPromo \/ Publish \/ Notify

SpecPromo == InitPromo /\ [][NextPromo]_vars

\* ----------------------------------------------- one admission, delivery
\* One admission under every saved combination of the delivery settings.
PlainMessage == <<<<"min", 0>>>>

CreatePromo ==
    create_promo_code([code |-> "sale", discount_type |-> "percentage",
                       discount_value |-> 1000, valid_from |-> None,
                       valid_to |-> None, usage_limit |-> None,
                       min_order_amount |-> 0, is_active |-> TRUE])

SaveDelivery ==
    \E min_order_amount \in {0, 7500}, min_order_amount_out_of_city \in {0, 12000},
       min_order_message \in {DefaultMessage, PlainMessage, <<>>},
       enabled \in BOOLEAN :
        save_delivery_settings(min_order_amount, min_order_amount_out_of_city,
                               min_order_message, enabled)

DeliveryOrderInputs ==
    [items : {<<Item(5000, 1)>>, <<Item(5000, 2)>>},
     order_type : {"dine_in", "delivery"},
     delivery_zone : {None, Some("in_city"), Some("out_of_city")},
     promo_code : {None, Some("sale")}]

AdmitDelivery ==
    \E data \in DeliveryOrderInputs, fail \in StoreCalls \cup {""} :
        \E tCreated \in now..MaxTime :
            create_order(1, data, fail, tCreated, tCreated, tCreated, tCreated)

NextDelivery == CreatePromo \/ SaveDelivery \/ AdmitDelivery \/ Publish \/ Notify

SpecDelivery == Init /\ [][NextDelivery]_vars

\* ------------------------------------------------- status, payment updates
\* One admission of a plain cart followed by, and interleaved with, status
\* and payment updates of the stored, an unknown and a malformed identifier.
OrderIds == {BadId, 1, 2}

StatusInputs == valid_statuses \cup {"archived"}

PaymentInputs == valid_payment_statuses \cup {"refunded"}

\* update requests are numbered in the order in which they arrive
NextUpd == {u \in Upds : upd[u].pc = "idle" /\ \A q \in 1..(u - 1) : upd[q].pc # "idle"}

AdmitStatus ==
    \E data \in PlainInputs : create_order(1, data, "", now, now, now, now)

UpdateStatus ==
    \E u \in NextUpd, order_id \in OrderIds, status \in StatusInputs, fail \in {"", "update_one"} :
        update_order_status(u, order_id, status, fail)

UpdateStatusPublish ==
    \E u \in Upds, delivered \in BOOLEAN : update_order_status_publish(u, delivered)

UpdatePayment ==
    \E u \in NextUpd, order_id \in OrderIds, payment_status \in PaymentInputs, fail \in {"", "update_one"} :
        update_payment_status(u, order_id, payment_status, fail)

NextStatus ==
    AdmitStatus \/ Publish \/ Notify \/ UpdateStatus \/ UpdateStatusPublish \/ UpdatePayment

SpecStatus == Init /\ [][NextStatus]_vars

\* ------------------------------------------- two orders and their updates
\* Two admissions of plain carts followed by, and interleaved with, payment
\* updates of either order and status updates that end it.
StoredIds == {1, 2}

InitFrame == Init /\ ~telegram

AdmitFrame ==
    \E r \in NextReq \cap StoredIds, data \in PlainInputs :
        create_order(r, data, "", now, now, now, now)

FrameStatus ==
    \E u \in NextUpd, order_id \in StoredIds, status \in {"completed", "cancelled"} :
        update_order_status(u, order_id, status, "")

FramePayment ==
    \E u \in NextUpd, order_id \in StoredIds, payment_status \in valid_payment_statuses :
        update_payment_status(u, order_id, payment_status, "")

NextFrame ==
    AdmitFrame \/ Publish \/ Notify \/ FrameStatus \/ UpdateStatusPublish \/ FramePayment

SpecFrame == InitFrame /\ [][NextFrame]_vars

\* ------------------------------------------- saved settings and restarts
\* Delivery admissions between saves of the delivery settings, reads of the
\* settings and restarts of the process against the same store.
SaveMinimum ==
    \E min_order_amount \in {0, 7500}, enabled \in BOOLEAN :
        save_delivery_settings(min_order_amount, 0, DefaultMessage, enabled)

RestartInputs ==
    [items : {<<Item(5000, 1)>>, <<Item(5000, 2)>>}, order_type : {"delivery"},
     delivery_zone : {Some("in_city")}, promo_code : {None}]

AdmitRestart ==
    \E r \in NextReq, data \in RestartInputs :
        create_order(r, data, "", now, now, now, now)

\* the store is as reachable after the restart as it was before
Restart == restart(connected)

NextRestart ==
    \/ SaveMinimum
    \/ AdmitRestart
    \/ Publish
    \/ Notify
    \/ get_delivery_settings
    \/ get_settings
    \/ Restart

SpecRestart == Init /\ [][NextRestart]_vars

\* ------------------------------------------------------- a live connection
\* One admission of a plain cart while a client connects to /ws, sends
\* frames, stays silent and leaves, and while its bus connection fails.
ClientFrames == {"ping", "PING"}

ElapseSteps == {15, 30}

AdmitLive ==
    \E data \in PlainInputs : create_order(1, data, "", now, now, now, now)

ConnectOne == \E subscribed \in BOOLEAN : websocket_endpoint(1, subscribed)

ForwardOne == listener(1)

BusLostOne == listener_raises(1)

Receive == \E data \in ClientFrames : ws_receive(1, data)

SendPong == ws_send_pong(1)

Elapse == \E d \in ElapseSteps : ws_elapse(1, d)

Timeout == ws_timeout(1)

SendProbe == ws_send_probe(1)

DisconnectOne == client_disconnects(1)

TeardownOne == ws_teardown(1)

AcloseOne == ws_aclose(1)

NextLive ==
    \/ AdmitLive \/ Publish \/ Notify
    \/ ConnectOne \/ ForwardOne \/ BusLostOne
    \/ Receive \/ SendPong \/ Elapse \/ Timeout \/ SendProbe
    \/ DisconnectOne \/ TeardownOne \/ AcloseOne

SpecLive == Init /\ [][NextLive]_vars

\* ------------------------------------------------------------------ fan-out
\* One admission of a plain cart while clients connect to /ws and leave, and
\* while bus connections fail; the clients send nothing and the first
\* timeout has not elapsed.
Connect == \E c \in Conns, subscribed \in BOOLEAN : websocket_endpoint(c, subscribed)

Forward == \E c \in Conns : listener(c)

BusLost == \E c \in Conns : listener_raises(c)

Disconnect == \E c \in Conns : client_disconnects(c)

Teardown == \E c \in Conns : ws_teardown(c)

Aclose == \E c \in Conns : ws_aclose(c)

NextFanout ==
    \/ AdmitLive \/ Publish \/ Notify
    \/ Connect \/ Forward \/ BusLost
    \/ Disconnect \/ Teardown \/ Aclose

\* the notification bot is not configured
InitFanout == Init /\ ~telegram

\* the event loop runs every forward task that has a message to handle
SpecFanout == InitFanout /\ [][NextFanout]_vars /\ \A c \in Conns : WF_vars(listener(c))

\* ------------------------------------------------- one admission, carts
\* One admission over every cart the request model accepts: OrderCreate takes
\* any list of items, OrderItem any integer qty and any list of modifiers.
SelectedModifier(price_add) == [price_add |-> price_add]

OrderItem(price, qty, modifiers) == [price |-> price, qty |-> qty, modifiers |-> modifiers]

SeqsUpTo(S, n) == UNION {[1..k -> S] : k \in 0..n}

CartItems ==
    {OrderItem(5000, qty, modifiers) :
        qty \in {-1, 0, 1, 2},
        modifiers \in SeqsUpTo({SelectedModifier(0), SelectedModifier(500)}, MaxMods)}

CartInputs ==
    [items : SeqsUpTo(CartItems, MaxItems), order_type : {"dine_in"},
     delivery_zone : {None}, promo_code : {None}]

AdmitCart ==
    \E data \in CartInputs, fail \in {"", "insert_one"} :
        create_order(1, data, fail, now, now, now, now)

NextCart == AdmitCart \/ Publish \/ Notify

SpecCart == Init /\ [][NextCart]_vars

\* ================================================================ claims
\* the orders the server keeps: the store's, or the in-memory list
Persisted == IF connected THEN orders ELSE DEMO_ORDERS
PromoList == IF connected THEN promo_codes ELSE DEMO_PROMO_CODES

\* the admission of request r takes its synchronous step
Admits(r) == req[r].pc = "idle" /\ req'[r].pc # "idle"

\* C1: with a connected store, the orders admitted within one UTC day carry
\* pairwise distinct order numbers.
C1_DistinctOrderNumbers ==
    connected =>
        \A i, j \in 1..Len(orders) :
            (/\ i # j
             /\ DayOf(orders[i].created_at) = DayOf(orders[j].created_at)
             /\ orders[i].order_number.today = DayOf(orders[i].created_at)
             /\ orders[j].order_number.today = DayOf(orders[j].created_at))
            => orders[i].order_number # orders[j].order_number

\* C2: a promo code whose usage_limit is set (any limit, 0 included) never
\* has usage_count above that limit.
C2_UsageWithinLimit ==
    \A i \in 1..Len(PromoList) :
        PromoList[i].usage_limit # None
        => PromoList[i].usage_count <= PromoList[i].usage_limit[1]

\* C3: an admission that fails or is rejected before its order is persisted
\* leaves every promo code's usage_count as it was.
C3_FailedAdmissionKeepsUsage ==
    [][\A r \in Reqs :
          (Admits(r) /\ req'[r].order = None)
          => (promo_codes' = promo_codes /\ DEMO_PROMO_CODES' = DEMO_PROMO_CODES)]_vars

\* C4: every persisted order has total = subtotal - discount_amount and
\* 0 <= discount_amount <= subtotal.
C4_PricingInvariant ==
    \A i \in 1..Len(Persisted) :
        /\ Persisted[i].total = Persisted[i].subtotal - Persisted[i].discount_amount
        /\ 0 <= Persisted[i].discount_amount
        /\ Persisted[i].discount_amount <= Persisted[i].subtotal

\* the threshold the delivery check is specified to use
ClaimedThreshold(data) ==
    IF data.delivery_zone = Some("out_of_city")
    THEN delivery.min_order_amount_out_of_city
    ELSE delivery.min_order_amount

\* C5: create_order rejects a cart exactly when it is a delivery order,
\* delivery is enabled, the threshold of its zone is positive and the
\* subtotal is below it; the rejection is HTTP 400 with the message template
\* in which every {amount} is replaced by the threshold.
C5_DeliveryCheck ==
    [][\A r \in Reqs :
          Admits(r) =>
            LET data == req'[r].data[1]
                threshold == ClaimedThreshold(data)
                tooLow == /\ data.order_type = "delivery"
                          /\ delivery.enabled
                          /\ threshold > 0
                          /\ SumItems(data.items) < threshold
                template == delivery.min_order_message
                detail == req'[r].detail
            IN  /\ (req'[r].pc = "rejected") <=> tooLow
                /\ tooLow =>
                     /\ req'[r].http = 400
                     /\ Len(detail) = Len(template)
                     /\ \A k \in 1..Len(template) :
                           detail[k] = IF template[k] = AmountToken
                                       THEN StrOf(threshold) ELSE template[k]]_vars

\* C5 witness: an out-of-city delivery was rejected with the out-of-city
\* minimum in its message, while the standard minimum would have let it pass.
C5_Witness ==
    \E r \in Reqs :
        /\ req[r].pc = "rejected"
        /\ req[r].data[1].delivery_zone = Some("out_of_city")
        /\ req[r].detail = <<<<"min", 0>>, StrOf(12000)>>
        /\ SumItems(req[r].data[1].items) >= 7500

\* C6: an admission rejected by the delivery check changes nothing: no order
\* stored, no number consumed, no usage_count raised, nothing published, no
\* notification; and the rejected request does nothing afterwards.
C6_RejectionChangesNothing ==
    [][\A r \in Reqs :
          /\ (Admits(r) /\ req'[r].pc = "rejected")
             => /\ UNCHANGED <<orders, DEMO_ORDERS, demo_order_counter,
                               promo_codes, DEMO_PROMO_CODES, bus, settings,
                               delivery>>
                /\ effects'[r] = NoEffects
                /\ req'[r].order = None
          /\ req[r].pc = "rejected"
             => (req'[r] = req[r] /\ effects'[r] = effects[r])]_vars

\* C6 witness: a delivery cart carrying a code that is stored, active and
\* unlimited was rejected.
C6_Witness ==
    \E r \in Reqs :
        /\ req[r].pc = "rejected"
        /\ req[r].data[1].promo_code = Some("sale")
        /\ connected
        /\ promo_codes # <<>>
        /\ promo_codes[1].usage_count = 0

\* C7: when validate_promo_code finds the code invalid, the admission is not
\* rejected for it and no usage_count changes; unless a store call raises,
\* the order is persisted with discount_amount 0, total = subtotal and no
\* promo code.
C7_InvalidPromoNotFatal ==
    [][\A r \in Reqs :
          (Admits(r) /\ req'[r].promo_error # "")
          => /\ promo_codes' = promo_codes
             /\ DEMO_PROMO_CODES' = DEMO_PROMO_CODES
             /\ req'[r].pc # "rejected"
             /\ req'[r].raised = ""
                => /\ req'[r].pc = "publish"
                   /\ req'[r].order # None
                   /\ Len(Persisted') = Len(Persisted) + 1
                   /\ \E i \in 1..Len(Persisted') : Persisted'[i] = req'[r].order[1]
                   /\ req'[r].order[1].discount_amount = 0
                   /\ req'[r].order[1].total = SumItems(req'[r].data[1].items)
                   /\ req'[r].order[1].promo_code = None]_vars

\* C7 witness: an admission whose code had used up its limit completed, and
\* its order is stored.
C7_Witness ==
    \E r \in Reqs :
        /\ req[r].promo_error = "usage_exceeded"
        /\ req[r].pc = "done"
        /\ req[r].order # None
        /\ \E i \in 1..Len(Persisted) : Persisted[i] = req[r].order[1]

\* the verdict the six checks give in the stated order at instant t ("" when
\* the code passes all six)
ClaimedVerdict(code, subtotal, t) ==
    LET hits == {i \in 1..Len(PromoList) : Upper(PromoList[i].code) = Upper(code)}
        promo == PromoList[FirstOf(hits)]
    IN  IF hits = {} THEN "not_found"
        ELSE IF ~promo.is_active THEN "inactive"
        ELSE IF promo.valid_from # None /\ t < promo.valid_from[1] THEN "not_yet_valid"
        ELSE IF promo.valid_to # None /\ t > promo.valid_to[1] THEN "expired"
        ELSE IF promo.usage_limit # None /\ promo.usage_count >= promo.usage_limit[1]
            THEN "usage_exceeded"
        ELSE IF subtotal < promo.min_order_amount THEN "min_not_met"
        ELSE ""

\* C8: validate_promo_code reports the first failing check in the order not
\* found, not active, before valid_from, after valid_to, usage limit reached,
\* below the minimum amount, and a code is applied only when it passes all
\* six, in store mode and in demo mode alike.
C8_ValidationOrder ==
    [][\A r \in Reqs :
          (/\ Admits(r)
           /\ req'[r].pc # "rejected"
           /\ req'[r].raised # "find_one"
           /\ TruthyStr(req'[r].data[1].promo_code))
          => \E t \in now..now' :
                LET data == req'[r].data[1]
                    verdict == ClaimedVerdict(data.promo_code[1],
                                              SumItems(data.items), t)
                IN  req'[r].promo_error = verdict]_vars

\* number of persisted orders discounted by code c
OrdersWith(list, c) == Cardinality({i \in 1..Len(list) : list[i].promo_code = Some(c)})

\* C9: every step changes a code's usage_count by the number of orders
\* discounted by that code that the step persists, in both storage modes.
C9_UsageCountsOrders ==
    [][\A i \in 1..Len(PromoList) :
          PromoList'[i].usage_count - PromoList[i].usage_count
          = OrdersWith(Persisted', PromoList[i].code)
            - OrdersWith(Persisted, PromoList[i].code)]_vars

\* C10: an admission that has returned its order made exactly one order
\* record, at most one usage increment, exactly one publish attempt and at
\* most one notification attempt; an admission that was rejected or failed
\* made none of them.
C10_SideEffects ==
    \A r \in Reqs :
        /\ req[r].pc = "done"
           => /\ effects[r].orders = 1
              /\ effects[r].incs <= 1
              /\ effects[r].pubs = 1
              /\ effects[r].notifs <= 1
        /\ req[r].pc \in {"rejected", "error"} => effects[r] = NoEffects

\* the handler of update request u takes its synchronous step
Arrives(u) == upd[u].pc = "idle" /\ upd'[u].pc # "idle"

\* C11: a status update whose target is not one of new, preparing, ready,
\* completed, cancelled is rejected (HTTP 400), leaves every stored order as
\* it was and publishes nothing, then or later.
C11_InvalidStatusRejected ==
    [][\A u \in Upds :
          /\ (/\ Arrives(u)
              /\ upd'[u].kind = "status"
              /\ upd'[u].value \notin {"new", "preparing", "ready", "completed", "cancelled"})
             => /\ upd'[u].pc = "rejected"
                /\ upd'[u].http = 400
                /\ upd'[u].pubs = 0
                /\ UNCHANGED <<orders, DEMO_ORDERS, bus>>
          /\ upd[u].pc = "rejected" => upd'[u] = upd[u]]_vars

\* C11 witness: a status update to "archived" of an order that is stored was
\* rejected, and the order still has the status it was admitted with.
C11_Witness ==
    \E u \in Upds :
        /\ upd[u].pc = "rejected"
        /\ upd[u].kind = "status"
        /\ upd[u].value = "archived"
        /\ upd[u].matched
        /\ \A i \in 1..Len(Persisted) : Persisted[i].status = "new"

\* the status changes of section 4.3
LegalTransitions ==
    {<<"new", "preparing">>, <<"preparing", "ready">>, <<"ready", "completed">>}
    \cup {<<s, "cancelled">> : s \in {"new", "preparing", "ready"}}

\* C12: the status of a stored order changes only along new -> preparing ->
\* ready -> completed or to cancelled from a non-terminal status; a completed
\* or cancelled order keeps its status.
C12_LegalTransitionsOnly ==
    [][\A i \in 1..Len(Persisted) : \A j \in 1..Len(Persisted') :
          (/\ Persisted'[j]._id = Persisted[i]._id
           /\ Persisted'[j].status # Persisted[i].status)
          => <<Persisted[i].status, Persisted'[j].status>> \in LegalTransitions]_vars

\* C13: the publish step of a status update belongs to an update that
\* matched a stored order, is its only one, and what it puts on the bus is
\* order_updated with that order's identifier and the new status and nothing
\* else; an update that matched no stored order does not reach that step.
C13_StatusUpdatePublishesOnce ==
    [][\A u \in Upds :
          /\ (upd[u].pc = "publish" /\ upd'[u].pc = "done")
             => /\ upd[u].matched
                /\ upd'[u].pubs = 1
                /\ bus' # bus
                   => /\ Len(bus') = Len(bus) + 1
                      /\ SubSeq(bus', 1, Len(bus)) = bus
                      /\ JsonLoads(bus'[Len(bus')]) =
                            [type |-> "order_updated",
                             order_id |-> upd[u].order_id,
                             status |-> upd[u].value]
          /\ (Arrives(u) /\ upd'[u].kind = "status" /\ ~upd'[u].matched)
             => (upd'[u].pc # "publish" /\ bus' = bus)
          /\ upd[u].pc \in {"rejected", "error", "done"} => upd'[u] = upd[u]]_vars

\* C14: a payment update that succeeded on a stored order has made one
\* publish on the order-change topic.
C14_PaymentUpdatePublishes ==
    \A u \in Upds :
        (upd[u].kind = "payment" /\ upd[u].pc = "done" /\ upd[u].matched)
        => upd[u].pubs = 1

\* C15: a status or payment update with a valid target whose identifier
\* matches no stored order is rejected as not found (HTTP 404) and changes no
\* order, with the store connected and in demo mode.
C15_UnknownOrderNotFound ==
    [][\A u \in Upds :
          (/\ Arrives(u)
           /\ ~upd'[u].matched
           /\ upd'[u].raised # "update_one"
           /\ \/ upd'[u].kind = "status" /\ upd'[u].value \in valid_statuses
              \/ upd'[u].kind = "payment" /\ upd'[u].value \in valid_payment_statuses)
          => /\ upd'[u].pc = "rejected"
             /\ upd'[u].http = 404
             /\ UNCHANGED <<orders, DEMO_ORDERS>>]_vars

\* connection c is open: its endpoint is in the liveness loop and its client
\* is there
Open(c) == ws[c].pc \in {"wait", "pong", "probe"} /\ ws[c].client = "open"

\* the admission of request r has published new_order and the bus took it
\* as its k-th message
Published(r, k) ==
    /\ req[r].order # None
    /\ k \in 1..Len(bus)
    /\ JsonLoads(bus[k]).type = "new_order"
    /\ JsonLoads(bus[k]).order._id = req[r].order[1]._id

\* connection c subscribed before the new_order of request r was published
SubscribedBefore(c, r) ==
    /\ ws[c].pubsub # None
    /\ \E k \in 1..Len(bus) : Published(r, k) /\ ws[c].pubsub[1].since < k

\* connection c has been sent a new_order frame with the order of request r
\* and the total that admission computed
GotNewOrder(c, r) ==
    \E i \in 1..Len(ws[c].sent) :
        /\ req[r].order # None
        /\ IsJson(ws[c].sent[i])
        /\ JsonLoads(ws[c].sent[i]).type = "new_order"
        /\ JsonLoads(ws[c].sent[i]).order._id = req[r].order[1]._id
        /\ JsonLoads(ws[c].sent[i]).order.total
             = req[r].order[1].subtotal - req[r].order[1].discount_amount

\* the admissions whose new_order connection c subscribed before and has not
\* been sent
Missing(c) == {r \in Reqs : SubscribedBefore(c, r) /\ ~GotNewOrder(c, r)}

\* C16 as stated: whenever an admission has published new_order on a
\* reachable bus, every open connection that subscribed before the publish is
\* eventually sent the new_order frame with the admission's total, or stops
\* being open.  (Frames sent stay sent, so this is: again and again the
\* connection misses none or is not open.)
C16_AsStated ==
    \A c \in Conns : []<>(Missing(c) = {} \/ ~Open(c))

\* C16, amended: whenever an admission has published new_order on a
\* reachable bus, every open connection that subscribed before the publish is
\* eventually sent the new_order frame with the admission's total, or stops
\* being open, or has lost its forward task to a bus error.
C16_NewOrderReachesSubscribers ==
    \A c \in Conns : []<>(Missing(c) = {} \/ ~Open(c) \/ ws[c].listener # "running")

\* C16 witness: every connection is open and has been sent the new_order
\* frame of the same admission.
C16_Witness ==
    \E r \in Reqs :
        \A c \in Conns : Open(c) /\ SubscribedBefore(c, r) /\ GotNewOrder(c, r)

\* number of frames equal to frame among those sent to connection c
CountSent(conn, frame) == Cardinality({i \in 1..Len(conn.sent) : conn.sent[i] = frame})

\* the forward task and the subscription of a connection are as they were
SameForwarding(a, b) == b.listener = a.listener /\ b.pubsub = a.pubsub

\* C17: the liveness loop of an open connection gives up waiting only after
\* 30 time-units without a client frame, and then it can; the timeout makes
\* it send exactly the text "ping" and wait again for another 30, with the
\* connection still open and the forward task and subscription untouched.
C17_IdleProbe ==
    [][\A c \in Conns :
          LET a == ws[c]
              b == ws'[c]
          IN  /\ (a.pc = "wait" /\ b.pc = "probe")
                 => /\ a.silence = 30
                    /\ b.sent = a.sent
                    /\ b.client = a.client
                    /\ SameForwarding(a, b)
              /\ (a.pc = "wait" /\ a.client = "open" /\ a.silence = 30)
                 => /\ ENABLED ws_timeout(c)
                    /\ b.silence \in {30, 0}
              /\ a.silence < 30 => b.pc # "probe"
              /\ (a.pc = "probe" /\ b.pc # "probe" /\ b.client = "open")
                 => /\ b.sent = Append(a.sent, Text("ping"))
                    /\ b.pc = "wait"
                    /\ b.silence = 0
                    /\ SameForwarding(a, b)
              /\ (a.pc = "probe" /\ a.client = "open") => ENABLED ws_send_probe(c)]_vars

\* C17 witness: a connection was probed twice, after two full timeouts, and
\* is open and waiting again with its forward task running.
C17_Witness ==
    \E c \in Conns :
        /\ Open(c)
        /\ ws[c].pc = "wait"
        /\ ws[c].timeouts = 2
        /\ ws[c].received = 0
        /\ CountSent(ws[c], Text("ping")) = 2
        /\ ws[c].listener = "running"

\* C18: on an open connection every client frame "ping" is answered with
\* exactly one "pong" on that connection before the next client frame is
\* read, and the connection stays open; nothing else sends "pong".
C18_PingPong ==
    [][\A c \in Conns :
          LET a == ws[c]
              b == ws'[c]
              read == b.received = a.received + 1
              answered == a.pc = "pong" /\ b.pc = "wait"
          IN  /\ (read /\ b.data = "ping")
                 => (b.pc = "pong" /\ b.sent = a.sent /\ b.client = "open")
              /\ a.pc = "pong" => ~read
              /\ (a.pc = "pong" /\ a.client = "open") => ENABLED ws_send_pong(c)
              /\ (a.pc = "pong" /\ b.pc # "pong" /\ b.client = "open") => answered
              /\ answered
                 => /\ b.sent = Append(a.sent, Text("pong"))
                    /\ b.client = "open"
                    /\ SameForwarding(a, b)
              /\ CountSent(b, Text("pong"))
                   = CountSent(a, Text("pong")) + (IF answered THEN 1 ELSE 0)]_vars

\* C18 witness: a connection has read two "ping" frames and has sent two
\* "pong" frames, and is open and waiting.
C18_Witness ==
    \E c \in Conns :
        /\ Open(c)
        /\ ws[c].pc = "wait"
        /\ ws[c].data = "ping"
        /\ ws[c].received = 2
        /\ CountSent(ws[c], Text("pong")) = 2

\* connection c has no bus events coming: the subscription failed when it
\* connected, or its forward task ended
NoBus(conn) == conn.listener \in {"none", "dead"}

\* number of JSON frames among those sent to a connection
CountEvents(conn) == Cardinality({i \in 1..Len(conn.sent) : IsJson(conn.sent[i])})

\* C19: a client whose subscription fails at connect is accepted into the
\* liveness loop all the same, and the loss of the bus connection later
\* changes nothing of the connection but its forward task; such a connection
\* stays in the loop as long as its client is there, answers "ping" with
\* "pong", sends its idle probes, and is sent no events.
C19_BusLossKeepsConnection ==
    [][\A c \in Conns :
          LET a == ws[c]
              b == ws'[c]
          IN  /\ (a.pc = "closed" /\ b # a)
                 => (b.pc = "wait" /\ b.client = "open" /\ b.sent = <<>>)
              /\ (a.listener = "running" /\ b.listener = "dead" /\ a.client = "open")
                 => b = [a EXCEPT !.listener = "dead"]
              /\ (NoBus(a) /\ a.client = "open")
                 => /\ a.pc \in {"wait", "pong", "probe"}
                    /\ b.client = "open" => b.pc \in {"wait", "pong", "probe"}
                    /\ CountEvents(b) = CountEvents(a)
                    /\ a.pc = "wait" /\ a.received < MaxFrames
                       => ENABLED ws_receive(c, "ping")
                    /\ a.pc = "pong"
                       => /\ ENABLED ws_send_pong(c)
                          /\ b.pc = "wait" => b.sent = Append(a.sent, Text("pong"))
                    /\ a.pc = "wait" /\ a.silence = 30 => ENABLED ws_timeout(c)
                    /\ a.pc = "probe"
                       => /\ ENABLED ws_send_probe(c)
                          /\ b.pc = "wait" => b.sent = Append(a.sent, Text("ping"))]_vars

\* C19 witness: a connection whose subscription failed when it connected is
\* open, has answered a ping and sent an idle probe, and an event published
\* on the bus was not sent to it.
C19_Witness ==
    \E c \in Conns :
        /\ Open(c)
        /\ ws[c].listener = "none"
        /\ ws[c].pubsub = None
        /\ bus # <<>>
        /\ ws[c].sent = <<Text("pong"), Text("ping")>>

\* C20: when the liveness loop ends its forward task no longer runs, and
\* when the endpoint has ended no subscription is held; from the moment the
\* client is gone or the loop has ended nothing is sent to the connection,
\* and the forward task and the connection never come back.
C20_Teardown ==
    [][\A c \in Conns :
          LET a == ws[c]
              b == ws'[c]
          IN  /\ (a.pc \in {"wait", "pong", "probe"} /\ b.pc \in {"closing", "ended"})
                 => /\ a.client = "gone"
                    /\ b.listener # "running"
                    /\ b.pubsub = None <=> b.pc = "ended"
              /\ a.pc = "closing"
                 => /\ ENABLED ws_aclose(c)
                    /\ b.pc \in {"closing", "ended"}
                    /\ b.pc = "ended" => b.pubsub = None
              /\ a.pc = "ended" => b = a
              /\ (a.client = "gone" \/ a.pc \in {"closing", "ended"})
                 => /\ b.sent = a.sent
                    /\ b.client = "gone"
                    /\ b.listener # "running" \/ a.listener = "running"
              /\ (a.client = "gone" /\ a.pc \in {"wait", "pong", "probe"})
                 => ENABLED ws_teardown(c)
              /\ a.pc \in {"closing", "ended"} => b.listener = a.listener]_vars

\* C20 witness: a connection whose forward task was running when its client
\* left has ended: the task is cancelled, the subscription is closed, and an
\* event published meanwhile was not sent to it.
C20_Witness ==
    \E c \in Conns :
        /\ ws[c].pc = "ended"
        /\ ws[c].client = "gone"
        /\ ws[c].listener = "cancelled"
        /\ ws[c].pubsub = None
        /\ bus # <<>>
        /\ CountEvents(ws[c]) = 0

\* the stored records an admission writes
Stores == <<orders, DEMO_ORDERS, demo_order_counter, promo_codes, DEMO_PROMO_CODES>>

\* C21: a failure to publish the new-order event, or to send the
\* notification, does not undo a persisted order: the steps after the
\* persistence change no stored record, can always be taken, and end with the
\* order returned to the caller with a success status while it is still in
\* the store.
C21_AnnouncementFailureKeepsOrder ==
    [][\A r \in Reqs :
          /\ req[r].pc = "publish"
             => /\ ENABLED create_order_publish(r, FALSE)
                /\ req'[r] # req[r]
                   => /\ req'[r].pc = "notify"
                      /\ req'[r].order = req[r].order
                      /\ UNCHANGED Stores
          /\ req[r].pc = "notify"
             => /\ ENABLED create_order_notify(r, FALSE)
                /\ req'[r] # req[r]
                   => /\ req'[r].pc = "done"
                      /\ req'[r].http = 200
                      /\ req'[r].order = req[r].order
                      /\ req[r].order # None
                      /\ \E i \in 1..Len(Persisted) : Persisted[i] = req[r].order[1]
                      /\ UNCHANGED Stores]_vars

\* C21 witness: an order with an applied promo code was returned with 200
\* although its publish raised and its notification failed; nothing is on
\* the bus and the usage of the code stays incremented.
C21_Witness ==
    \E r \in Reqs :
        /\ req[r].pc = "done"
        /\ req[r].http = 200
        /\ telegram
        /\ connected
        /\ effects[r].failed = 2
        /\ bus = <<>>
        /\ req[r].order # None
        /\ req[r].order[1].promo_code # None
        /\ \E i \in 1..Len(orders) : orders[i] = req[r].order[1]
        /\ \E i \in 1..Len(promo_codes) : promo_codes[i].usage_count = effects[r].incs
        /\ effects[r].incs = 1

\* C22 as stated: whenever the store is unreachable, at startup (the
\* application then runs without it) or at a store call of the admission, a
\* handled create_order has failed with 503 or was refused before it reached
\* the store, and no order is recorded, returned or announced.
C22_AsStated ==
    \A r \in Reqs :
        (req[r].pc # "idle" /\ (~connected \/ req[r].raised # ""))
        => /\ req[r].pc \in {"error", "rejected"}
           /\ req[r].pc = "error" => req[r].http = 503
           /\ req[r].order = None
           /\ Persisted = <<>>
           /\ effects[r].pubs = 0 /\ effects[r].notifs = 0

\* C22: with a store that was connected at startup, an admission one of whose
\* store calls fails on server selection ends with 503, returns no order,
\* leaves the stored orders as they were, and is never published or notified.
C22_StoreFailureIsFatal ==
    [][\A r \in Reqs :
          /\ (connected /\ Admits(r) /\ req'[r].raised # "")
             => /\ req'[r].pc = "error"
                /\ req'[r].http = 503
                /\ req'[r].order = None
                /\ UNCHANGED <<orders, DEMO_ORDERS, demo_order_counter, bus>>
          /\ req[r].pc = "error"
             => /\ req'[r] = req[r]
                /\ effects'[r] = effects[r]
                /\ effects[r].orders = 0
                /\ effects[r].pubs = 0
                /\ effects[r].notifs = 0
                /\ ~ENABLED create_order_publish(r, TRUE)
                /\ \A sent \in BOOLEAN : ~ENABLED create_order_notify(r, sent)]_vars

\* C22 witness: with a connected store the insert_one of an admission failed;
\* the request ended with 503 and no order, and nothing is stored or on the
\* bus.
C22_Witness ==
    \E r \in Reqs :
        /\ connected
        /\ req[r].pc = "error"
        /\ req[r].raised = "insert_one"
        /\ req[r].http = 503
        /\ req[r].order = None
        /\ orders = <<>>
        /\ bus = <<>>

\* the orders stored before the i-th that were created on the same UTC day
EarlierSameDay(i) ==
    {j \in 1..(i - 1) : DayOf(orders[j].created_at) = DayOf(orders[i].created_at)}

\* C23: with a connected store, the k-th order admitted on a UTC day carries
\* ordinal k, zero-padded to three digits: the number of orders already
\* created that day plus one, 001 for the first.
C23_OrdinalIsCountPlusOne ==
    connected =>
        \A i \in 1..Len(orders) :
            orders[i].order_number.today = DayOf(orders[i].created_at)
            => orders[i].order_number.ordinal
                 = Format03d(Cardinality(EarlierSameDay(i)) + 1)

RECURSIVE SumPriceAdd(_)
\* the sum of the price_add of an item's selected modifiers
SumPriceAdd(modifiers) ==
    IF modifiers = <<>> THEN 0
    ELSE Head(modifiers).price_add + SumPriceAdd(Tail(modifiers))

RECURSIVE SumWithModifiers(_)
\* the sum over line items of (unit price + modifiers' price_add) x quantity
SumWithModifiers(items) ==
    IF items = <<>> THEN 0
    ELSE (Head(items).price + SumPriceAdd(Head(items).modifiers)) * Head(items).qty
         + SumWithModifiers(Tail(items))

\* C24: the subtotal of every order create_order builds is the sum over its
\* line items of (unit price + the sum of the item's selected modifiers'
\* price_add) x quantity.
C24_SubtotalCountsModifiers ==
    \A r \in Reqs :
        req[r].order # None
        => req[r].order[1].subtotal = SumWithModifiers(req[r].order[1].items)

\* C25: every persisted order has at least one line item, and every line
\* item of a persisted order has quantity at least 1.
C25_ItemsNonEmptyQtyPositive ==
    \A i \in 1..Len(Persisted) :
        /\ Persisted[i].items # <<>>
        /\ \A k \in 1..Len(Persisted[i].items) : Persisted[i].items[k].qty >= 1

\* the liveness loop of connection c is running
InLoop(conn) == conn.pc \in {"wait", "pong", "probe"}

\* C26 as stated: once the forward task of a connection is dead its liveness
\* loop takes no further step except to end, and a liveness loop that has
\* ended has no running forward task.
C26_AsStated ==
    [][\A c \in Conns :
          /\ (ws[c].listener = "dead"
              /\ (ws'[c].pc # ws[c].pc \/ ws'[c].sent # ws[c].sent))
             => ~InLoop(ws'[c])
          /\ ~InLoop(ws'[c]) => ws'[c].listener # "running"]_vars

\* C26: a liveness loop that has ended has no running forward task; an
\* exception of the forward task ends that task only, leaving the loop
\* where it was, and the loop of a connection whose forward task is dead
\* keeps running for as long as its client is there.
C26_LoopEndCancelsTask ==
    [][\A c \in Conns :
          /\ ~InLoop(ws'[c]) => ws'[c].listener # "running"
          /\ (ws[c].listener = "running" /\ ws'[c].listener = "dead")
             => /\ ws'[c].pc = ws[c].pc
                /\ ws'[c].client = ws[c].client
                /\ ws'[c].sent = ws[c].sent
          /\ (ws[c].listener = "dead" /\ InLoop(ws[c]) /\ ws'[c].client = "open")
             => InLoop(ws'[c])]_vars

\* C26 witness: the forward task of a connection is dead while its client is
\* connected and its liveness loop has read a "ping" and is about to answer.
C26_Witness ==
    \E c \in Conns :
        /\ ws[c].listener = "dead"
        /\ ws[c].client = "open"
        /\ ws[c].pc = "pong"
        /\ ws[c].received >= 1

\* the ordinals a count of at least n gives
OrdinalsFrom(n) == {Format03d(k) : k \in n..(n + MaxReq + 1)}

\* C27: with a connected store, the count behind the ordinal of an order
\* admitted within one UTC day leaves out no order created earlier that day:
\* the ordinal is the formatting of a number at least the number of orders
\* already created that day, whatever the time of day of the allocation.
C27_CountCoversWholeDay ==
    connected =>
        \A i \in 1..Len(orders) :
            orders[i].order_number.today = DayOf(orders[i].created_at)
            => orders[i].order_number.ordinal
                 \in OrdinalsFrom(Cardinality(EarlierSameDay(i)))

\* C30: the date inside the order_number of every persisted order is the UTC
\* calendar date of its created_at, also for an admission that runs across
\* midnight.
C30_NumberDateIsCreationDate ==
    \A i \in 1..Len(Persisted) :
        Persisted[i].order_number.today = StrftimeYmd(Persisted[i].created_at)

\* the positions at which the kept orders differ across the step
ChangedOrders == {i \in 1..Len(Persisted) : Persisted'[i] # Persisted[i]}

\* C28: an update request changes no order but the one it names and no field
\* of that order but its own: a payment update sets payment_status only and
\* a status update sets status only, so the other field, the pricing fields,
\* the order_number and every other order stay as they were; and a payment
\* update to pending or paid of a stored order is accepted whatever the
\* status of the order.
C28_UpdateFrame ==
    [][\A u \in Upds :
          Arrives(u)
          => /\ Len(Persisted') = Len(Persisted)
             /\ Cardinality(ChangedOrders) <= 1
             /\ \A i \in ChangedOrders :
                   /\ upd'[u].http \in {0, 200}
                   /\ upd'[u].kind = "payment"
                      => /\ Persisted'[i] = [Persisted[i] EXCEPT !.payment_status = upd'[u].value]
                         /\ upd'[u].value \in {"pending", "paid"}
                   /\ upd'[u].kind = "status"
                      => Persisted'[i] = [Persisted[i] EXCEPT !.status = upd'[u].value]
             /\ (upd'[u].kind = "payment" /\ upd'[u].matched
                 /\ upd'[u].value \in {"pending", "paid"})
                => /\ upd'[u].http = 200
                   /\ \E i \in 1..Len(Persisted') :
                         /\ Persisted'[i].payment_status = upd'[u].value
                         /\ \A j \in 1..Len(Persisted') : j # i => Persisted'[j] = Persisted[j]]_vars

\* C28 witness: of two stored orders the first was completed by the first
\* update and then marked paid by the second, which was accepted; its
\* pricing and number are those of its admission and the second order is
\* untouched.
C28_Witness ==
    /\ Len(Persisted) = 2
    /\ upd[1].kind = "status" /\ upd[1].value = "completed" /\ upd[1].pc = "done"
    /\ upd[2].kind = "payment" /\ upd[2].value = "paid" /\ upd[2].http = 200
    /\ \E i, j \in 1..2 :
          /\ i # j
          /\ Persisted[i].status = "completed" /\ Persisted[i].payment_status = "paid"
          /\ Persisted[j].status = "new" /\ Persisted[j].payment_status = "pending"
          /\ \E r \in Reqs :
                /\ req[r].order # None
                /\ Persisted[i] = [req[r].order[1] EXCEPT !.status = "completed",
                                                          !.payment_status = "paid"]

\* C29: with a connected store that holds saved delivery settings (they are
\* then the most recently saved ones), every delivery admission is checked
\* against exactly those values: it is refused exactly when they require it,
\* with their message, also after a restart of the process.
C29_SavedSettingsEnforced ==
    [][\A r \in Reqs :
          (Admits(r) /\ connected /\ settings # None)
          => LET data == req'[r].data[1]
             IN  /\ req'[r].pc = "rejected"
                    <=> DeliveryRejects(data, SumItems(data.items), settings[1])
                 /\ req'[r].pc = "rejected"
                    => req'[r].detail = DeliveryDetail(data, settings[1])]_vars

====
